---------------------------- MODULE Spec2Model ----------------------------
(***************************************************************************)
(* A model of slackclipper (src/slackclipper.py): the credential store,   *)
(* the permalink parser, the mrkdwn-to-Markdown converter, the display     *)
(* name cache and get_thread_content, the operation that ties them         *)
(* together.                                                               *)
(*                                                                         *)
(* A Python str is a sequence of one-character strings.  A Python          *)
(* exception is a record [exc |-> <class name>]; a value returned          *)
(* normally is a record [ok |-> <value>].                                  *)
(***************************************************************************)
EXTENDS Integers, Sequences, FiniteSets, TLC

VARIABLES
  \* slack_text_to_markdown called on its own
  text,      \* the text value of a message, as the Slack API gives it
  conv,      \* the text after each line of the first call, or Nothing
  again,     \* the same for a second call, on the first call's result
  \* parse_slack_message_link called on its own
  link,      \* the link passed in
  parsed,    \* what the call returned or raised, or Nothing
  \* the credentials file and the calls that read and write it
  store,     \* what ~/.config/slackclipper/credentials holds
  ret,       \* the last call on the store: its name, argument and outcome
  \* the process that runs get_thread_content
  cache,     \* functools.cache of get_display_name_with_cache: user -> name
  gToken,    \* the module global gToken
  gCookie,   \* the module global gCookie
  pc,        \* where get_thread_content is
  rlink,     \* its link argument
  local,     \* its local variables
  log,       \* the steps it has run since it was called, in order
  outcome,   \* what the last call returned or raised
  renders    \* how many calls have been made

textVars   == <<text, conv, again>>
parseVars  == <<link, parsed>>
storeVars  == <<store, ret>>
renderVars == <<cache, gToken, gCookie, pc, rlink, local, log, outcome, renders>>
vars == <<text, conv, again, link, parsed, store, ret,
          cache, gToken, gCookie, pc, rlink, local, log, outcome, renders>>

\* The value of a variable that holds nothing yet.
Nothing == [nothing |-> TRUE]

\* A value returned normally, and an exception raised.
Return(v) == [ok |-> v]
Raise(e)  == [exc |-> e]
IsReturn(r) == "ok" \in DOMAIN r
IsRaise(r)  == "exc" \in DOMAIN r

(***************************************************************************)
(* Python str helpers                                                      *)
(***************************************************************************)

\* s[i:i+len(pat)] == pat
StartsWithAt(s, i, pat) ==
  /\ i + Len(pat) - 1 <= Len(s)
  /\ SubSeq(s, i, i + Len(pat) - 1) = pat

RECURSIVE ReplaceFrom(_, _, _, _)
ReplaceFrom(s, i, pat, rep) ==
  IF i > Len(s) THEN <<>>
  ELSE IF StartsWithAt(s, i, pat)
       THEN rep \o ReplaceFrom(s, i + Len(pat), pat, rep)
       ELSE <<s[i]>> \o ReplaceFrom(s, i + 1, pat, rep)

\* str.replace(pat, rep): every non-overlapping occurrence, leftmost first.
StrReplace(s, pat, rep) == ReplaceFrom(s, 1, pat, rep)

\* pat in s, for two str
Contains(s, pat) == \E i \in 1..Len(s) : StartsWithAt(s, i, pat)

\* The least j >= i with s[j] = ch and no line break in s[i..j-1]; 0 if
\* there is none.  It is where a lazy ".*?" followed by the literal ch ends:
\* "." matches every character but the line break.
NextOnLine(s, i, ch) ==
  LET hits == {j \in i..Len(s) :
                 s[j] = ch /\ \A k \in i..(j - 1) : s[k] # "\n"}
  IN  IF hits = {} THEN 0 ELSE CHOOSE j \in hits : \A k \in hits : j <= k

(***************************************************************************)
(* slack_text_to_markdown                                                  *)
(***************************************************************************)

\* The backtick character (the one character the module's strings cannot hold).
BT == "BACKTICK"

BOLD == <<"*", "*">>

asterisk_match_to_bold(m) ==
  IF m[1] = BT /\ m[Len(m)] = BT
  THEN m      \* Ignore if within code block
  ELSE BOLD   \* Otherwise turn mrkdwn bold into Markdown bold

\* Where a match of BT.*?BT|\* that starts at i ends; 0 if none starts there.
BoldMatchEnd(s, i) ==
  IF s[i] = BT /\ NextOnLine(s, i + 1, BT) # 0 THEN NextOnLine(s, i + 1, BT)
  ELSE IF s[i] = "*" THEN i
  ELSE 0

RECURSIVE BoldFrom(_, _)
BoldFrom(s, i) ==
  IF i > Len(s) THEN <<>>
  ELSE LET e == BoldMatchEnd(s, i)
       IN  IF e # 0
           THEN asterisk_match_to_bold(SubSeq(s, i, e)) \o BoldFrom(s, e + 1)
           ELSE <<s[i]>> \o BoldFrom(s, i + 1)

\* re.sub(r"BT.*?BT|\*", asterisk_match_to_bold, text)
BoldStep(s) == BoldFrom(s, 1)

\* Where a match of <X(.*?)> that starts at i ends (X is # or @); 0 if none.
TagMatchEnd(s, i, x) ==
  IF StartsWithAt(s, i, <<"<", x>>) THEN NextOnLine(s, i + 2, ">") ELSE 0

RECURSIVE ChannelFrom(_, _)
ChannelFrom(s, i) ==
  IF i > Len(s) THEN <<>>
  ELSE LET e == TagMatchEnd(s, i, "#")
       IN  IF e # 0
           THEN <<"[", "#">> \o SubSeq(s, i + 2, e - 1) \o <<"]">>
                  \o ChannelFrom(s, e + 1)
           ELSE <<s[i]>> \o ChannelFrom(s, i + 1)

\* re.sub(r"<#(.*?)>", r"[#\1]", text)
ChannelStep(s) == ChannelFrom(s, 1)

RECURSIVE MentionIdsFrom(_, _)
MentionIdsFrom(s, i) ==
  IF i > Len(s) THEN <<>>
  ELSE LET e == TagMatchEnd(s, i, "@")
       IN  IF e # 0
           THEN <<SubSeq(s, i + 2, e - 1)>> \o MentionIdsFrom(s, e + 1)
           ELSE MentionIdsFrom(s, i + 1)

\* match.group(1) of every match of <@(.*?)>, in the order re.sub calls
\* mention_match_to_display_name on them.
MentionIds(s) == MentionIdsFrom(s, 1)

RECURSIVE MentionFrom(_, _, _)
MentionFrom(s, i, names) ==
  IF i > Len(s) THEN <<>>
  ELSE LET e == TagMatchEnd(s, i, "@")
       IN  IF e # 0
           THEN <<"[", "@">> \o names[SubSeq(s, i + 2, e - 1)] \o <<"]">>
                  \o MentionFrom(s, e + 1, names)
           ELSE <<s[i]>> \o MentionFrom(s, i + 1, names)

\* re.sub(r"<@(.*?)>", mention_match_to_display_name, text), where names
\* maps each id to what get_display_name returned for it.
MentionStep(s, names) == MentionFrom(s, 1, names)

\* Where group 1 of a match of <(.*?)\|(.*?)> that starts at i ends (the
\* position of the bar); 0 if no match starts at i.
UrlBar(s, i) ==
  IF i <= Len(s) /\ s[i] = "<" THEN
    LET bar == NextOnLine(s, i + 1, "|")
    IN  IF bar # 0 /\ NextOnLine(s, bar + 1, ">") # 0 THEN bar ELSE 0
  ELSE 0

RECURSIVE UrlFrom(_, _)
UrlFrom(s, i) ==
  IF i > Len(s) THEN <<>>
  ELSE LET bar == UrlBar(s, i)
           e   == NextOnLine(s, bar + 1, ">")
       IN  IF bar # 0
           THEN <<"[">> \o SubSeq(s, bar + 1, e - 1) \o <<"]", "(">>
                  \o SubSeq(s, i + 1, bar - 1) \o <<")">> \o UrlFrom(s, e + 1)
           ELSE <<s[i]>> \o UrlFrom(s, i + 1)

\* re.sub(r"<(.*?)\|(.*?)>", r"[\2](\1)", text)
UrlStep(s) == UrlFrom(s, 1)

\* The characters emoji.emojize accepts between the two colons of a
\* shortcode, among those the model's texts are made of.
EmojiNameChars == {"a", "b", "l", "m", "p", "t", "g", "s", "U", "C",
                   "1", "2", "&", "*", "#"}

\* The alias table, cut to one shortcode; the glyph is one character.
SMILE == <<":", "s", ":">>
EmojiAliases == (SMILE :> <<"(smile)">>)

\* Where a match of :[name chars]+: that starts at i ends; 0 if none.
EmojiMatchEnd(s, i) ==
  IF s[i] # ":" THEN 0
  ELSE LET ends == {j \in (i + 2)..Len(s) :
                      s[j] = ":" /\ \A k \in (i + 1)..(j - 1) : s[k] \in EmojiNameChars}
       IN  IF ends = {} THEN 0 ELSE CHOOSE j \in ends : TRUE

RECURSIVE EmojizeFrom(_, _)
EmojizeFrom(s, i) ==
  IF i > Len(s) THEN <<>>
  ELSE LET e == EmojiMatchEnd(s, i)
           m == SubSeq(s, i, e)
       IN  IF e # 0
           THEN (IF m \in DOMAIN EmojiAliases THEN EmojiAliases[m] ELSE m)
                  \o EmojizeFrom(s, e + 1)
           ELSE <<s[i]>> \o EmojizeFrom(s, i + 1)

\* emoji.emojize(text, language='alias')
Emojize(s) == EmojizeFrom(s, 1)

AMP == <<"&", "a", "m", "p", ";">>
LT  == <<"&", "l", "t", ";">>
GT  == <<"&", "g", "t", ";">>

\* The mutant of Unescape: the three replacements in the reverse order, so
\* that an ampersand made by the first pass is never read again.
UnescapeAmpLast(s) ==
  StrReplace(StrReplace(StrReplace(s, LT, <<"<">>), GT, <<">">>), AMP, <<"&">>)

\* The three text.replace calls that end slack_text_to_markdown.
Unescape(s) ==
  StrReplace(StrReplace(StrReplace(s, AMP, <<"&">>), LT, <<"<">>), GT, <<">">>)

\* The text after each line of slack_text_to_markdown, given what
\* get_display_name returns for each mentioned id.
ConvertTrace(s, names) ==
  LET bold    == BoldStep(s)
      channel == ChannelStep(bold)
      mention == MentionStep(channel, names)
      url     == UrlStep(mention)
      emo     == Emojize(url)
  IN  [bold |-> bold, channel |-> channel, mention |-> mention, url |-> url,
       emoji |-> emo, out |-> Unescape(emo)]

slack_text_to_markdown(s, names) == ConvertTrace(s, names).out

(***************************************************************************)
(* The variables of the parts a specification leaves alone                 *)
(***************************************************************************)

TextIdle   == text = <<>> /\ conv = Nothing /\ again = Nothing
ParseIdle  == link = <<>> /\ parsed = Nothing
StoreIdle  == store = Nothing /\ ret = Nothing
RenderIdle ==
  /\ cache = <<>> /\ gToken = Nothing /\ gCookie = Nothing
  /\ pc = "idle" /\ rlink = <<>> /\ local = Nothing /\ log = <<>>
  /\ outcome = Nothing /\ renders = 0

(***************************************************************************)
(* SpecText: slack_text_to_markdown on texts put together from pieces      *)
(***************************************************************************)

MaxEntityPieces == 3
MaxBoldPieces   == 5
MaxMarkupPieces == 2

EntityPieces == {AMP, <<"a", "m", "p", ";">>, <<"l", "t", ";">>, LT, GT, <<"a">>,
                 <<"@", "U", "1">>}
BoldPieces   == {<<"*">>, <<BT>>, <<"\n">>, <<"a">>}
MarkupPieces == {<<"<", "@", "U", "1", ">">>, <<"<", "#", "C", "1", ">">>,
                 <<"<", "a", "|", "b", ">">>, SMILE, <<"*">>, AMP, <<"|">>}

\* Every text made of at most n of the pieces P.
RECURSIVE Concats(_, _)
Concats(P, n) ==
  IF n = 0 THEN {<<>>}
  ELSE LET shorter == Concats(P, n - 1)
       IN  shorter \cup {p \o t : p \in P, t \in shorter}

Texts == Concats(EntityPieces, MaxEntityPieces)
           \cup Concats(BoldPieces, MaxBoldPieces)
           \cup Concats(MarkupPieces, MaxMarkupPieces)

\* A stub of get_display_name with a name for every id: the name of the
\* user with id X is "N" followed by X.
StubNames(s) ==
  LET ids == MentionIds(ChannelStep(BoldStep(s)))
  IN  [id \in {ids[k] : k \in 1..Len(ids)} |-> <<"N">> \o id]

InitText ==
  /\ text \in Texts
  /\ conv = Nothing
  /\ again = Nothing
  /\ ParseIdle /\ StoreIdle /\ RenderIdle

\* slack_text_to_markdown(text)
Convert ==
  /\ conv = Nothing
  /\ conv' = ConvertTrace(text, StubNames(text))
  /\ UNCHANGED <<text, again, parseVars, storeVars, renderVars>>

\* slack_text_to_markdown called on what the first call returned
ConvertAgain ==
  /\ conv # Nothing
  /\ again = Nothing
  /\ again' = ConvertTrace(conv.out, StubNames(conv.out))
  /\ UNCHANGED <<text, conv, parseVars, storeVars, renderVars>>

NextText == Convert \/ ConvertAgain

SpecText == InitText /\ [][NextText]_vars

\* No match of any pattern of slack_text_to_markdown starts in s.
NoMarkupTokens(s) ==
  \A i \in 1..Len(s) :
    /\ BoldMatchEnd(s, i) = 0
    /\ TagMatchEnd(s, i, "#") = 0
    /\ TagMatchEnd(s, i, "@") = 0
    /\ UrlBar(s, i) = 0
    /\ EmojiMatchEnd(s, i) = 0

AMPAMP == AMP \o <<"a", "m", "p", ";">>

\* C8, as claimed: the unescaping step applied to its own result changes
\* nothing, and slack_text_to_markdown applied twice to a text with no
\* markup tokens gives what it gives applied once.
C8_UnescapeIdempotent ==
  /\ conv # Nothing => Unescape(conv.out) = conv.out
  /\ (again # Nothing /\ NoMarkupTokens(text)) => again.out = conv.out

\* C8, amended: the unescaping step is idempotent on every text that does not
\* contain "&amp;amp;", and slack_text_to_markdown applied twice equals
\* slack_text_to_markdown applied once on every text that has no markup
\* tokens, does not contain "&amp;amp;", and whose unescaped form has no
\* markup tokens either.
C8_UnescapeIdempotentWithoutAmpAmp ==
  /\ (conv # Nothing /\ ~Contains(conv.emoji, AMPAMP))
       => Unescape(conv.out) = conv.out
  /\ (again # Nothing /\ NoMarkupTokens(text) /\ ~Contains(text, AMPAMP)
        /\ NoMarkupTokens(conv.out))
       => again.out = conv.out

\* C8's case: a text with entities in it, none of them "&amp;amp;", that the
\* unescaping step changed, converted twice.
C8_Witness ==
  /\ again # Nothing
  /\ NoMarkupTokens(text) /\ NoMarkupTokens(conv.out)
  /\ Contains(text, AMP) /\ Contains(text, LT) /\ ~Contains(text, AMPAMP)
  /\ conv.out # text

\* The text s with every asterisk outside a code span doubled, a code span
\* being what lies from a backtick to the next backtick, line breaks or not.
RECURSIVE BoldOutsideSpansFrom(_, _)
BoldOutsideSpansFrom(s, i) ==
  IF i > Len(s) THEN <<>>
  ELSE LET closers == {j \in (i + 1)..Len(s) : s[j] = BT}
           close   == CHOOSE j \in closers : \A k \in closers : j <= k
       IN  IF s[i] = BT /\ closers # {}
           THEN SubSeq(s, i, close) \o BoldOutsideSpansFrom(s, close + 1)
           ELSE IF s[i] = "*" THEN BOLD \o BoldOutsideSpansFrom(s, i + 1)
           ELSE <<s[i]>> \o BoldOutsideSpansFrom(s, i + 1)

\* C9, as claimed: the bold step doubles every asterisk outside a code span
\* and passes every code span through unchanged, a span with a line break in
\* it included.
C9_BoldKeepsCodeSpans ==
  conv # Nothing => conv.bold = BoldOutsideSpansFrom(text, 1)

(***************************************************************************)
(* parse_slack_message_link                                                *)
(***************************************************************************)

DigitChars == <<"0", "1", "2", "3", "4", "5", "6", "7", "8", "9">>
Digits == {DigitChars[k] : k \in 1..Len(DigitChars)}

\* A character that is numeric and no digit, such as the superscript two.
SUP2 == "SUPERSCRIPT TWO"

UpperChars == {"H", "T", "P", "S", "C"}
LowerChars == {"a", "b", "c", "e", "h", "i", "p", "r", "s", "t", "v", "x"}

\* c.lower()
LowerChar(c) ==
  CASE c = "H" -> "h" [] c = "T" -> "t" [] c = "P" -> "p"
    [] c = "S" -> "s" [] c = "C" -> "c" [] OTHER -> c

\* s.lower()
LowerStr(s) == [k \in 1..Len(s) |-> LowerChar(s[k])]

\* s.isnumeric(): not empty, and every character numeric.
IsNumeric(s) == Len(s) > 0 /\ \A k \in 1..Len(s) : s[k] \in Digits \cup {SUP2}

\* s.find(ch) + 1: the first position of ch in s, 0 if it is not there.
Find(s, ch) ==
  IF \E j \in 1..Len(s) : s[j] = ch
  THEN CHOOSE j \in 1..Len(s) : s[j] = ch /\ \A k \in 1..(j - 1) : s[k] # ch
  ELSE 0

\* s[i-1:], with i counted from 1
From(s, i) == SubSeq(s, i, Len(s))

\* The characters a scheme is made of (urllib.parse.scheme_chars).
SchemeChars == UpperChars \cup LowerChars \cup Digits \cup {"+", "-", "."}

\* The first step of urlparse: the scheme is what comes before the first
\* colon when it starts with a letter and is made of scheme characters, and
\* it is lower-cased.
SplitScheme(url) ==
  LET colon == Find(url, ":")
  IN  IF /\ colon > 1
         /\ url[1] \in UpperChars \cup LowerChars
         /\ \A k \in 1..(colon - 1) : url[k] \in SchemeChars
      THEN [scheme |-> LowerStr(SubSeq(url, 1, colon - 1)), rest |-> From(url, colon + 1)]
      ELSE [scheme |-> <<>>, rest |-> url]

\* The second: the netloc follows "//" and ends before the first of "/",
\* "?" and "#".
SplitNetloc(url) ==
  LET delims == {j \in 3..Len(url) : url[j] \in {"/", "?", "#"}}
      delim  == IF delims = {} THEN Len(url) + 1
                ELSE CHOOSE j \in delims : \A k \in delims : j <= k
  IN  IF StartsWithAt(url, 1, <<"/", "/">>)
      THEN [netloc |-> SubSeq(url, 3, delim - 1), rest |-> From(url, delim)]
      ELSE [netloc |-> <<>>, rest |-> url]

\* s.split(ch, 1)[0]
Before(s, ch) == IF Find(s, ch) = 0 THEN s ELSE SubSeq(s, 1, Find(s, ch) - 1)

\* The last: the path ends before the first "#" or "?".
UrlParts(scheme, netloc, rest) ==
  [scheme |-> scheme, netloc |-> netloc, path |-> Before(Before(rest, "#"), "?")]

UrlAfterScheme(sch) ==
  UrlParts(sch.scheme, SplitNetloc(sch.rest).netloc, SplitNetloc(sch.rest).rest)

\* urllib.parse.urlparse(link), cut to scheme, netloc and path.
urlparse(url) == UrlAfterScheme(SplitScheme(url))

\* s.split("/")
RECURSIVE SplitSlash(_)
SplitSlash(s) ==
  LET slash == Find(s, "/")
  IN  IF slash = 0 THEN <<s>>
      ELSE <<SubSeq(s, 1, slash - 1)>> \o SplitSlash(From(s, slash + 1))

ARCHIVES == <<"a", "r", "c", "h", "i", "v", "e", "s">>

\* len(ts) must be 1+10+6
TsLen == 17
\* the digits of the seconds: ts[1:11]
SecondsLen == 10

\* The mutant of FormatTs: the split one character early.
FormatTsSplitEarly(ts) ==
  SubSeq(ts, 2, SecondsLen) \o <<".">> \o SubSeq(ts, SecondsLen + 1, TsLen)

\* f"{ts[1:11]}.{ts[11:17]}"
FormatTs(ts) ==
  SubSeq(ts, 2, SecondsLen + 1) \o <<".">> \o SubSeq(ts, SecondsLen + 2, TsLen)

\* f"{scheme}://{netloc}/"
FormatUrl(scheme, netloc) == scheme \o <<":", "/", "/">> \o netloc \o <<"/">>

ValueError(why) == [exc |-> "ValueError", why |-> why]

\* The checks of parse_slack_message_link, in their order, and its result.
CheckLink(scheme, netloc, archives, chId, ts, rest) ==
  IF scheme = <<>>
    THEN ValueError("link must include a scheme")
  ELSE IF archives # ARCHIVES
    THEN ValueError("first part of path must be archives")
  ELSE IF Len(ts) = 0
    THEN Raise("IndexError")   \* ts[0] of the empty str
  ELSE IF ts[1] # "p"
    THEN ValueError("timestamp part of path must start with p")
  ELSE IF ~IsNumeric(From(ts, 2))
    THEN ValueError("timestamp part of path after p must be numeric")
  ELSE IF Len(ts) # TsLen
    THEN ValueError("timestamp must be 16 digits long")
  ELSE IF rest # <<>>
    THEN ValueError("timestamp must be last part of path")
  ELSE Return([url     |-> FormatUrl(scheme, netloc),
               channel |-> chId,
               ts      |-> FormatTs(ts)])

\* archives, chId, ts, *rest = path[1:].split("/"): with fewer than three
\* parts the unpacking raises, which is turned into ValueError.
UnpackPath(scheme, netloc, parts) ==
  IF Len(parts) < 3
  THEN ValueError("could not be parsed a URL.")
  ELSE CheckLink(scheme, netloc, parts[1], parts[2], parts[3],
                 SubSeq(parts, 4, Len(parts)))

ParseUrl(u) == UnpackPath(u.scheme, u.netloc, SplitSlash(From(u.path, 2)))

parse_slack_message_link(l) == ParseUrl(urlparse(l))

(***************************************************************************)
(* SpecParse: parse_slack_message_link on links put together from parts    *)
(***************************************************************************)

\* The longest run of digits after the "p" that the links try.
MaxDigits == 17

HTTPS == <<"h", "t", "t", "p", "s">>
Schemes  == {HTTPS, <<"H", "T", "T", "P", "S">>}
Hosts    == {<<"a", ".", "b">>}
Channels == {<<"C", "1">>}

\* The first n digits of 1234567890123456...
DigitRun(n) == [k \in 1..n |-> DigitChars[(k % 10) + 1]]

\* What the links have after "p": runs of digits, and the same with the last
\* character a letter or a numeric character that is no digit.
TsBodies ==
  {DigitRun(n) : n \in 0..MaxDigits}
    \cup {[DigitRun(n) EXCEPT ![n] = c] : n \in 1..MaxDigits, c \in {"x", SUP2}}

SixteenDigits == {d \in TsBodies : Len(d) = TsLen - 1 /\ \A k \in 1..Len(d) : d[k] \in Digits}

\* scheme://host/archives/<channelId>/p<16 digits>
Permalink(scheme, host, chan, digits) ==
  scheme \o <<":", "/", "/">> \o host \o <<"/">> \o ARCHIVES \o <<"/">>
    \o chan \o <<"/", "p">> \o digits

WellFormedLinks ==
  {Permalink(sc, h, c, d) : sc \in Schemes, h \in Hosts, c \in Channels,
                            d \in SixteenDigits}

Links ==
  LET origins  == {sc \o <<":", "/", "/">> \o h : sc \in Schemes, h \in Hosts \cup {<<>>}}
                    \cup Hosts
      firsts   == {ARCHIVES, <<"a", "r", "c", "h", "i", "v", "e">>}
      stamps   == {pre \o d : pre \in {<<>>, <<"p">>, <<"x">>}, d \in TsBodies}
      tails    == {<<>>, <<"/">>, <<"/", "x">>, <<"?", "t">>}
      full     == {o \o <<"/">> \o f \o <<"/">> \o c \o <<"/">> \o st \o tl :
                     o \in origins, f \in firsts, c \in Channels \cup {<<>>},
                     st \in stamps, tl \in tails}
      short    == {o \o tl : o \in origins,
                     tl \in {<<>>, <<"/">>, <<"/">> \o ARCHIVES,
                             <<"/">> \o ARCHIVES \o <<"/", "C", "1">>}}
  IN  full \cup short

InitParse ==
  /\ link \in Links
  /\ parsed = Nothing
  /\ TextIdle /\ StoreIdle /\ RenderIdle

ParseLink ==
  /\ parsed = Nothing
  /\ parsed' = parse_slack_message_link(link)
  /\ UNCHANGED <<link, textVars, storeVars, renderVars>>

NextParse == ParseLink

SpecParse == InitParse /\ [][NextParse]_vars

\* C5, as claimed: on every link that is not a well-formed permalink the
\* parser raises ValueError, and no other kind of error.
C5_MalformedRaisesValueError ==
  (parsed # Nothing /\ link \notin WellFormedLinks)
    => (IsRaise(parsed) /\ parsed.exc = "ValueError")

\* C6, as claimed: a well-formed permalink parses to the origin
\* scheme://host/ with the scheme as the link spells it, the channel id
\* and the timestamp with a dot after its tenth digit; and every timestamp
\* returned has ten characters, a dot and six characters.
C6_ParseRoundTrips ==
  /\ \A sc \in Schemes, h \in Hosts, c \in Channels, d \in SixteenDigits :
       (parsed # Nothing /\ link = Permalink(sc, h, c, d))
         => parsed = Return([url     |-> sc \o <<":", "/", "/">> \o h \o <<"/">>,
                             channel |-> c,
                             ts      |-> SubSeq(d, 1, 10) \o <<".">> \o SubSeq(d, 11, 16)])
  /\ (parsed # Nothing /\ IsReturn(parsed))
       => (Len(parsed.ok.ts) = 17 /\ parsed.ok.ts[11] = ".")

\* C6, amended: a well-formed permalink parses to the origin scheme://host/
\* with the scheme in lower case, the channel id and the timestamp with a
\* dot after its tenth digit; and every timestamp returned has ten
\* characters, a dot and six characters.
C6_ParseRoundTripsLowerScheme ==
  /\ \A sc \in Schemes, h \in Hosts, c \in Channels, d \in SixteenDigits :
       (parsed # Nothing /\ link = Permalink(sc, h, c, d))
         => parsed = Return([url     |-> LowerStr(sc) \o <<":", "/", "/">> \o h \o <<"/">>,
                             channel |-> c,
                             ts      |-> SubSeq(d, 1, 10) \o <<".">> \o SubSeq(d, 11, 16)])
  /\ (parsed # Nothing /\ IsReturn(parsed))
       => (Len(parsed.ok.ts) = 17 /\ parsed.ok.ts[11] = "."
           /\ \A k \in 1..Len(parsed.ok.ts) : k # 11 => parsed.ok.ts[k] # ".")

\* C6's case: a well-formed permalink with an upper-case scheme, parsed.
C6_Witness ==
  /\ link \in WellFormedLinks
  /\ link[1] = "H"
  /\ parsed # Nothing /\ IsReturn(parsed)

(***************************************************************************)
(* Python values, and the credentials file                                 *)
(***************************************************************************)

\* A Python value carries its type; a dict is a function from its keys
\* (each a str) to its values, a list the sequence of its elements.
PyStr(s)  == [type |-> "str", str |-> s]
PyDict(f) == [type |-> "dict", dict |-> f]
PyList(q) == [type |-> "list", list |-> q]
PyInt(n)  == [type |-> "int", int |-> n]

K_tokens == <<"t", "o", "k", "e", "n", "s">>
K_cookie == <<"c", "o", "o", "k", "i", "e">>
K_token  == <<"t", "o", "k", "e", "n">>
K_name   == <<"n", "a", "m", "e">>
K_value  == <<"v", "a", "l", "u", "e">>

\* k in v, for a str k
PyIn(k, v) ==
  CASE v.type = "dict" -> Return(k \in DOMAIN v.dict)
    [] v.type = "list" -> Return(\E i \in 1..Len(v.list) : v.list[i] = PyStr(k))
    [] v.type = "str"  -> Return(Contains(v.str, k))
    [] OTHER           -> Raise("TypeError")

\* v[k], for a str k
PyGetItem(v, k) ==
  IF v.type = "dict"
  THEN IF k \in DOMAIN v.dict THEN Return(v.dict[k]) ELSE Raise("KeyError")
  ELSE Raise("TypeError")

\* What the credentials file can be: not there, of no bytes, of bytes that
\* are no pickle, or the pickle of a value.
FileMissing == [file |-> "missing"]
FileEmpty   == [file |-> "empty"]
FileCorrupt == [file |-> "corrupt"]
Pickled(v)  == [file |-> "pickle", value |-> v]

get_credentials_from_store(st) ==
  CASE st.file = "missing" -> Raise("FileNotFoundError")   \* open()
    [] st.file = "empty"   -> Raise("EOFError")            \* pickle.load()
    [] st.file = "corrupt" -> Raise("UnpicklingError")     \* pickle.load()
    [] OTHER               -> Return(st.value)

are_credentials_present(st) ==
  LET creds == get_credentials_from_store(st)
      hasT  == PyIn(K_tokens, creds.ok)
      hasC  == PyIn(K_cookie, creds.ok)
  IN  IF IsRaise(creds) THEN Return(FALSE)
      ELSE IF IsRaise(hasT) THEN Return(FALSE)
      ELSE IF ~hasT.ok THEN Return(FALSE)
      ELSE IF IsRaise(hasC) THEN Return(FALSE)
      ELSE Return(hasC.ok)

get_token_and_cookie_for_workspace(st, url) ==
  LET creds  == get_credentials_from_store(st)
      tokens == PyGetItem(creds.ok, K_tokens)
      found  == PyIn(url, tokens.ok)
      entry  == PyGetItem(tokens.ok, url)
      token  == PyGetItem(entry.ok, K_token)
      cookie == PyGetItem(creds.ok, K_cookie)
  IN  IF IsRaise(creds) THEN creds
      ELSE IF IsRaise(tokens) THEN tokens
      ELSE IF IsRaise(found) THEN found
      ELSE IF ~found.ok THEN Raise("KeyError")
      ELSE IF IsRaise(entry) THEN entry
      ELSE IF IsRaise(token) THEN token
      ELSE IF IsRaise(cookie) THEN cookie
      ELSE Return([token |-> token.ok, cookie |-> cookie.ok])

get_name_for_workspace(st, url) ==
  LET creds  == get_credentials_from_store(st)
      tokens == PyGetItem(creds.ok, K_tokens)
      found  == PyIn(url, tokens.ok)
  IN  IF IsRaise(creds) THEN creds
      ELSE IF IsRaise(tokens) THEN tokens
      ELSE IF IsRaise(found) THEN found
      ELSE IF ~found.ok THEN Raise("KeyError")
      ELSE PyGetItem(tokens.ok, K_name)      \* creds['tokens']['name']

(***************************************************************************)
(* SpecStore: the calls that read and write the credentials file           *)
(***************************************************************************)

\* The origins of two workspaces, as parse_slack_message_link writes them.
UrlA == FormatUrl(HTTPS, <<"a", ".", "b">>)
UrlB == FormatUrl(HTTPS, <<"b", ".", "b">>)
Urls == {UrlA, UrlB}

\* The entry of a workspace in the tokens mapping.
TokenOf(url) == PyStr(<<"x", "o", "x", "c", "-">> \o SubSeq(url, 9, 9))
NameOf(url)  == PyStr(<<"W">> \o SubSeq(url, 9, 9))
Entry(url) ==
  PyDict((K_token :> TokenOf(url)) @@ (K_name :> NameOf(url)))

Cookie == PyDict((K_name :> PyStr(<<"d">>)) @@ (K_value :> PyStr(<<"x", "o", "x", "d">>)))

TokenMaps == {PyDict([u \in us |-> Entry(u)]) : us \in SUBSET Urls}

\* The bundles slacktokens gives: a tokens mapping and the cookie.
Bundles == {PyDict((K_tokens :> t) @@ (K_cookie :> Cookie)) : t \in TokenMaps}

\* The values update_credentials_store may be handed: bundles, dicts with a
\* key missing, and values that are no mapping.
Values ==
  Bundles
    \cup {PyDict(K_tokens :> t) : t \in TokenMaps}
    \cup {PyDict(K_cookie :> Cookie), PyDict(<<>>)}
    \cup {PyList(<<>>), PyList(<<PyStr(K_tokens)>>),
          PyList(<<PyStr(K_tokens), PyStr(K_cookie)>>), PyInt(0)}

Files == {FileMissing, FileEmpty, FileCorrupt} \cup {Pickled(v) : v \in Values}

\* A call on the store: its name, its argument, the file it found and what
\* it returned or raised.
Call(op, arg, st, out) == [op |-> op, arg |-> arg, found |-> st, out |-> out]

InitStore ==
  /\ store \in Files
  /\ ret = Nothing
  /\ TextIdle /\ ParseIdle /\ RenderIdle

\* update_credentials_store(creds): the file is opened for writing, which
\* empties it, and the pickle written; a failure before the file is opened
\* leaves it as it was, one after leaves it empty or cut short.
UpdateCredentialsStore ==
  /\ \E creds \in Values :
       \/ /\ store' = Pickled(creds)
          /\ ret' = Call("update_credentials_store", creds, store, Return("None"))
       \/ /\ store' \in {store, FileEmpty, FileCorrupt}
          /\ ret' = Call("update_credentials_store", creds, store, Raise("OSError"))
  /\ UNCHANGED <<textVars, parseVars, renderVars>>

\* update_credentials_store(): slacktokens extracts a bundle, which is
\* written as above, or fails.
ExtractCredentials ==
  /\ \/ \E creds \in Bundles :
          /\ store' = Pickled(creds)
          /\ ret' = Call("update_credentials_store", Nothing, store, Return("None"))
     \/ /\ store' \in {store, FileEmpty, FileCorrupt}
        /\ ret' = Call("update_credentials_store", Nothing, store, Raise("OSError"))
     \/ /\ store' = store
        /\ ret' = Call("update_credentials_store", Nothing, store, Raise("RuntimeError"))
  /\ UNCHANGED <<textVars, parseVars, renderVars>>

AreCredentialsPresent ==
  /\ ret' = Call("are_credentials_present", Nothing, store,
                 are_credentials_present(store))
  /\ UNCHANGED <<store, textVars, parseVars, renderVars>>

GetTokenAndCookieForWorkspace ==
  \E url \in Urls :
    /\ ret' = Call("get_token_and_cookie_for_workspace", url, store,
                   get_token_and_cookie_for_workspace(store, url))
    /\ UNCHANGED <<store, textVars, parseVars, renderVars>>

GetNameForWorkspace ==
  \E url \in Urls :
    /\ ret' = Call("get_name_for_workspace", url, store,
                   get_name_for_workspace(store, url))
    /\ UNCHANGED <<store, textVars, parseVars, renderVars>>

NextStore ==
  \/ UpdateCredentialsStore
  \/ ExtractCredentials
  \/ AreCredentialsPresent
  \/ GetTokenAndCookieForWorkspace
  \/ GetNameForWorkspace

SpecStore == InitStore /\ [][NextStore]_vars

\* The file holds a mapping with a tokens key and a cookie key.
HoldsBundle(st) ==
  /\ st.file = "pickle"
  /\ st.value.type = "dict"
  /\ K_tokens \in DOMAIN st.value.dict
  /\ K_cookie \in DOMAIN st.value.dict

\* C4, as claimed: are_credentials_present never raises, and returns true
\* exactly when the file holds a mapping with a tokens key and a cookie key:
\* false for a file that is missing, empty or corrupt, or that holds a value
\* that is not a mapping.
C4_PresentIffBundle ==
  (ret # Nothing /\ ret.op = "are_credentials_present")
    => /\ IsReturn(ret.out)
       /\ ret.out.ok <=> HoldsBundle(ret.found)

\* C7, as claimed: get_name_for_workspace returns the name field of the
\* entry of the tokens mapping whose key is the url, and raises KeyError
\* only when no key equals the url.
C7_NameOfMatchingWorkspace ==
  (/\ ret # Nothing /\ ret.op = "get_name_for_workspace"
   /\ ret.found \in {Pickled(b) : b \in Bundles})
    => LET tokens == ret.found.value.dict[K_tokens].dict
       IN  IF ret.arg \in DOMAIN tokens
           THEN ret.out = Return(tokens[ret.arg].dict[K_name])
           ELSE ret.out = Raise("KeyError")

(***************************************************************************)
(* The Slack API, get_display_name and slack_ts_to_datetime_str            *)
(***************************************************************************)

U1 == <<"U", "1">>
U2 == <<"U", "2">>

\* The profile users.info gives for a user id under a token: the names
\* carry the letter of the workspace the token is for, and the second
\* user's display name is blank.
Profile(token, user) ==
  LET ws == <<token.str[Len(token.str)]>>
  IN  [display_name |-> IF user = U2 THEN <<>> ELSE <<"D">> \o user \o ws,
       real_name    |-> <<"R">> \o user \o ws]

\* a or b, for two str
StrOr(a, b) == IF a # <<>> THEN a ELSE b

\* data['user']['profile']['display_name'] or ...['real_name']
ProfileName(profile) == StrOr(profile.display_name, profile.real_name)

\* A step get_thread_content ran: which, at which place of
\* get_thread_content, for which message (0: none), on which user, with
\* which credentials, what name came back, and the exception it raised
\* (Nothing: none).
Step(step, msg, user, token, cookie, name, err) ==
  [step |-> step, at |-> pc, msg |-> msg, user |-> user, token |-> token,
   cookie |-> cookie, name |-> name, err |-> err]

\* The mutant of CacheStore: nothing is kept.
CacheStoreNothing(c, user, name) == c

\* functools.cache keeping what get_display_name_with_cache returned.
CacheStore(c, user, name) ==
  [u \in DOMAIN c \cup {user} |-> IF u = user THEN name ELSE c[u]]

\* The mutant of SetGlobals: the globals are set once, and then kept.
SetGlobalsOnce(token, cookie) ==
  IF gToken = Nothing THEN [token |-> token, cookie |-> cookie]
  ELSE [token |-> gToken, cookie |-> gCookie]

\* gToken = token; gCookie = cookie
SetGlobals(token, cookie) == [token |-> token, cookie |-> cookie]

\* get_display_name(token, cookie, user) for message msg, the request to
\* users.info answered (up) or not: the globals and the cache after it, the
\* steps it ran, and what it returned or raised.
get_display_name(token, cookie, user, msg, up) ==
  LET g    == SetGlobals(token, cookie)
      name == ProfileName(Profile(g.token, user))
  IN  IF user \in DOMAIN cache
      THEN [g |-> g, cache |-> cache, out |-> Return(cache[user]),
            steps |-> <<Step("get_display_name", msg, user, g.token, g.cookie,
                             cache[user], Nothing)>>]
      ELSE IF up
      THEN [g |-> g, cache |-> CacheStore(cache, user, name), out |-> Return(name),
            steps |-> <<Step("users.info", msg, user, g.token, g.cookie, name, Nothing),
                        Step("get_display_name", msg, user, g.token, g.cookie,
                             name, Nothing)>>]
      ELSE [g |-> g, cache |-> cache, out |-> Raise("RuntimeError"),
            steps |-> <<Step("users.info", msg, user, g.token, g.cookie, <<>>,
                             Raise("RuntimeError"))>>]

\* slack_ts_to_datetime_str(ts_str): what precedes the first dot is read as
\* an integer.  The date and time of that second are not worked out: the
\* str returned is written UTC(<seconds>).
slack_ts_to_datetime_str(ts_str) ==
  LET dot            == Find(ts_str, ".")
      unix_time_str  == IF dot = 0 THEN ts_str ELSE SubSeq(ts_str, 1, dot - 1)
  IN  IF unix_time_str = <<>> \/ \E k \in 1..Len(unix_time_str) : unix_time_str[k] \notin Digits
      THEN Raise("ValueError")
      ELSE Return(<<"U", "T", "C", "(">> \o unix_time_str \o <<")">>)

ANONYMOUS == <<"A", "n", "o", "n", "y", "m", "o", "u", "s">>

\* f"**{name or 'Anonymous'}, at {timestamp}:**\n{text}\n\n"
Block(name, timestamp, txt) ==
  <<"*", "*">> \o StrOr(name, ANONYMOUS) \o <<",", " ", "a", "t", " ">> \o timestamp
    \o <<":", "*", "*", "\n">> \o txt \o <<"\n", "\n">>

(***************************************************************************)
(* SpecRender: a process that calls get_thread_content again and again     *)
(***************************************************************************)

\* How many calls of get_thread_content the process makes.
MaxRenders == 2
\* The most messages conversations.replies returns.
MaxMessages == 2

GoodTs == DigitRun(10) \o <<".">> \o DigitRun(6)

Messages ==
  {[user |-> U1, ts |-> GoodTs, text |-> <<"a">>],
   [user |-> U1, ts |-> GoodTs, text |-> <<"<", "@", "U", "2", ">">>],
   [user |-> U2, ts |-> GoodTs,
    text |-> <<"<", "@", "U", "1", ">", "*", "<", "@", "U", "1", ">">>],
   [user |-> U2, ts |-> <<"x">>, text |-> <<"a">>]}

\* What conversations.replies may return.
Threads == Concats({<<m>> : m \in Messages}, MaxMessages)

BothWorkspaces ==
  PyDict((K_tokens :> PyDict([u \in Urls |-> Entry(u)])) @@ (K_cookie :> Cookie))

RenderStores ==
  {FileMissing, Pickled(BothWorkspaces),
   Pickled(PyDict((K_tokens :> PyDict([u \in {UrlA} |-> Entry(u)])) @@ (K_cookie :> Cookie)))}

RenderLinks ==
  {Permalink(HTTPS, <<"a", ".", "b">>, <<"C", "1">>, DigitRun(16)),
   Permalink(HTTPS, <<"b", ".", "b">>, <<"C", "1">>, DigitRun(16)),
   Permalink(HTTPS, <<"a", ".", "b">>, <<"C", "1">>, DigitRun(15))}

NoLocals ==
  [workspace |-> <<>>, channel |-> <<>>, timestamp |-> <<>>, token |-> Nothing,
   cookie |-> Nothing, messages |-> <<>>, i |-> 0, name |-> <<>>,
   ids |-> <<>>, k |-> 0, names |-> <<>>, ret |-> <<>>]

InitRender ==
  /\ store \in RenderStores
  /\ ret = Nothing
  /\ cache = <<>>
  /\ gToken = Nothing
  /\ gCookie = Nothing
  /\ pc = "idle"
  /\ rlink = <<>>
  /\ local = NoLocals
  /\ log = <<>>
  /\ outcome = Nothing
  /\ renders = 0
  /\ TextIdle /\ ParseIdle

notRender == <<textVars, parseVars, storeVars>>

\* get_thread_content(link) is called.
CallGetThreadContent ==
  /\ pc = "idle"
  /\ renders < MaxRenders
  /\ \E l \in RenderLinks : rlink' = l
  /\ pc' = "present"
  /\ local' = NoLocals
  /\ log' = <<>>
  /\ outcome' = Nothing
  /\ renders' = renders + 1
  /\ UNCHANGED <<cache, gToken, gCookie, notRender>>

\* A step raised: get_thread_content ends with its exception.
Abort(steps, err) ==
  /\ log' = log \o steps
  /\ outcome' = err
  /\ pc' = "idle"

\* A step went through: get_thread_content goes on at next.
Goto(steps, next) ==
  /\ log' = log \o steps
  /\ outcome' = outcome
  /\ pc' = next

Setup(step, err) == <<Step(step, 0, <<>>, Nothing, Nothing, <<>>, err)>>

\* The mutant of StepPresent: the check is made and its result not read.
StepPresentUnread ==
  /\ pc = "present"
  /\ Goto(Setup("are_credentials_present",
                IF are_credentials_present(store).ok THEN Nothing
                ELSE Raise("RuntimeError")), "parse")
  /\ UNCHANGED <<local, cache, gToken, gCookie, rlink, renders, notRender>>

\* if not are_credentials_present(): raise RuntimeError(...)
StepPresent ==
  /\ pc = "present"
  /\ IF are_credentials_present(store).ok
     THEN Goto(Setup("are_credentials_present", Nothing), "parse")
     ELSE Abort(Setup("are_credentials_present", Raise("RuntimeError")),
                Raise("RuntimeError"))
  /\ UNCHANGED <<local, cache, gToken, gCookie, rlink, renders, notRender>>

ParseOutcome(r) ==
  IF IsRaise(r)
  THEN Abort(Setup("parse_slack_message_link", r), r) /\ local' = local
  ELSE /\ Goto(Setup("parse_slack_message_link", Nothing), "lookup")
       /\ local' = [local EXCEPT !.workspace = r.ok.url,
                                 !.channel = r.ok.channel,
                                 !.timestamp = r.ok.ts]

\* workspace, channel, timestamp = parse_slack_message_link(link)
StepParse ==
  /\ pc = "parse"
  /\ ParseOutcome(parse_slack_message_link(rlink))
  /\ UNCHANGED <<cache, gToken, gCookie, rlink, renders, notRender>>

LookupOutcome(r) ==
  IF IsRaise(r)
  THEN Abort(Setup("get_token_and_cookie_for_workspace", r), r) /\ local' = local
  ELSE /\ Goto(Setup("get_token_and_cookie_for_workspace", Nothing), "fetch")
       /\ local' = [local EXCEPT !.token = r.ok.token, !.cookie = r.ok.cookie]

\* token, cookie = get_token_and_cookie_for_workspace(workspace)
StepLookup ==
  /\ pc = "lookup"
  /\ LookupOutcome(get_token_and_cookie_for_workspace(store, local.workspace))
  /\ UNCHANGED <<cache, gToken, gCookie, rlink, renders, notRender>>

Replies(err) ==
  <<Step("conversations.replies", 0, <<>>, local.token, local.cookie, <<>>, err)>>

\* messages = get_messages(token, cookie, channel, timestamp): the request
\* fails, or is answered with a thread.  With no message in it the loop
\* is not entered, and the empty document returned.
StepFetch ==
  /\ pc = "fetch"
  /\ \/ Abort(Replies(Raise("RuntimeError")), Raise("RuntimeError")) /\ local' = local
     \/ \E msgs \in Threads :
          /\ local' = [local EXCEPT !.messages = msgs, !.i = 1, !.ret = <<>>]
          /\ log' = log \o Replies(Nothing)
          /\ IF msgs = <<>>
             THEN pc' = "idle" /\ outcome' = Return(<<>>)
             ELSE pc' = "name" /\ outcome' = outcome
  /\ UNCHANGED <<cache, gToken, gCookie, rlink, renders, notRender>>

\* name = get_display_name(token, cookie, m['user'])
StepName ==
  /\ pc = "name"
  /\ \E up \in BOOLEAN :
       LET r == get_display_name(local.token, local.cookie,
                                 local.messages[local.i].user, local.i, up)
       IN  /\ gToken' = r.g.token
           /\ gCookie' = r.g.cookie
           /\ cache' = r.cache
           /\ IF IsRaise(r.out)
              THEN Abort(r.steps, r.out) /\ local' = local
              ELSE Goto(r.steps, "ts") /\ local' = [local EXCEPT !.name = r.out.ok]
  /\ UNCHANGED <<rlink, renders, notRender>>

\* timestamp = slack_ts_to_datetime_str(m['ts'])
StepTs ==
  /\ pc = "ts"
  /\ LET r == slack_ts_to_datetime_str(local.messages[local.i].ts)
         step(err) == <<Step("slack_ts_to_datetime_str", local.i, <<>>, Nothing,
                             Nothing, <<>>, err)>>
     IN  IF IsRaise(r)
         THEN Abort(step(r), r) /\ local' = local
         ELSE Goto(step(Nothing), "text") /\ local' = [local EXCEPT !.timestamp = r.ok]
  /\ UNCHANGED <<cache, gToken, gCookie, rlink, renders, notRender>>

\* slack_text_to_markdown(m['text']) is entered: the bold and channel lines
\* run, and the mentions are found.
StepText ==
  /\ pc = "text"
  /\ local' = [local EXCEPT
                 !.ids = MentionIds(ChannelStep(BoldStep(local.messages[local.i].text))),
                 !.k = 1, !.names = <<>>]
  /\ Goto(<<Step("slack_text_to_markdown", local.i, <<>>, Nothing, Nothing, <<>>,
                 Nothing)>>, "mention")
  /\ UNCHANGED <<cache, gToken, gCookie, rlink, renders, notRender>>

OutOfOrder == [exc |-> "RuntimeError", why |-> "get_display_name() called out of order"]

\* mention_match_to_display_name(match), for the next mention of the text
StepMention ==
  /\ pc = "mention"
  /\ local.k <= Len(local.ids)
  /\ IF gToken = Nothing \/ gCookie = Nothing
     THEN /\ Abort(<<Step("mention_match_to_display_name", local.i, local.ids[local.k],
                          gToken, gCookie, <<>>, OutOfOrder)>>, OutOfOrder)
          /\ UNCHANGED <<local, cache, gToken, gCookie>>
     ELSE \E up \in BOOLEAN :
            LET id == local.ids[local.k]
                r  == get_display_name(gToken, gCookie, id, local.i, up)
            IN  /\ gToken' = r.g.token
                /\ gCookie' = r.g.cookie
                /\ cache' = r.cache
                /\ IF IsRaise(r.out)
                   THEN Abort(r.steps, r.out) /\ local' = local
                   ELSE /\ Goto(r.steps, "mention")
                        /\ local' = [local EXCEPT
                                       !.k = local.k + 1,
                                       !.names = (id :> r.out.ok) @@ local.names]
  /\ UNCHANGED <<rlink, renders, notRender>>

\* The rest of slack_text_to_markdown, ret += ..., and the end of the loop:
\* the next message, or return ret.
StepAppend ==
  /\ pc = "mention"
  /\ local.k > Len(local.ids)
  /\ LET txt == slack_text_to_markdown(local.messages[local.i].text, local.names)
         doc == local.ret \o Block(local.name, local.timestamp, txt)
     IN  /\ local' = [local EXCEPT !.ret = doc, !.i = local.i + 1]
         /\ log' = log
         /\ IF local.i + 1 > Len(local.messages)
            THEN pc' = "idle" /\ outcome' = Return(doc)
            ELSE pc' = "name" /\ outcome' = outcome
  /\ UNCHANGED <<cache, gToken, gCookie, rlink, renders, notRender>>

NextRender ==
  \/ CallGetThreadContent
  \/ StepPresent
  \/ StepParse
  \/ StepLookup
  \/ StepFetch
  \/ StepName
  \/ StepTs
  \/ StepText
  \/ StepMention
  \/ StepAppend

SpecRender == InitRender /\ [][NextRender]_vars

(***************************************************************************)
(* The claims on get_thread_content                                        *)
(***************************************************************************)

Steps == 1..Len(log)
IsCall(i)   == log[i].step = "users.info"
IsLookup(i) == log[i].step = "get_display_name"

\* C1: in one call of get_thread_content at most one request to users.info
\* is made for a user id, however many messages the user wrote or is
\* mentioned in, and every lookup of the id that follows the request
\* returns the name the request gave; all lookups of an id in the call
\* return one name.
C1_OneRequestPerUser ==
  /\ \A i, j \in Steps :
       (IsCall(i) /\ IsCall(j) /\ log[i].user = log[j].user) => i = j
  /\ \A i, j \in Steps :
       (IsCall(i) /\ log[i].err = Nothing /\ IsLookup(j) /\ i < j
          /\ log[i].user = log[j].user) => log[j].name = log[i].name
  /\ \A i, j \in Steps :
       (IsLookup(i) /\ IsLookup(j) /\ log[i].user = log[j].user)
         => log[i].name = log[j].name

\* C1's case: a user looked up three times in one call, as the author of a
\* message and as a mention in another, with one request made.
C1_Witness ==
  \E i, j, k, c \in Steps :
    /\ i < j /\ j < k
    /\ IsLookup(i) /\ IsLookup(j) /\ IsLookup(k) /\ IsCall(c)
    /\ log[i].user = log[c].user /\ log[j].user = log[c].user
    /\ log[k].user = log[c].user
    /\ log[i].msg # log[k].msg
    /\ log[i].at # log[k].at

\* C2, as claimed: every name get_display_name returns is the one users.info
\* gives for the user under the token and cookie of the call, never a name
\* cached under other credentials.
C2_NamesUnderCurrentCredentials ==
  \A i \in Steps :
    IsLookup(i) => log[i].name = ProfileName(Profile(local.token, log[i].user))

\* The places of get_thread_content, in the order of its lines.
Places == <<"present", "parse", "lookup", "fetch", "name", "ts", "text", "mention">>
PlaceOf(i) == CHOOSE n \in 1..Len(Places) : Places[n] = log[i].at

\* C3: the steps run in the order credentials check, link parse, token and
\* cookie lookup, fetch of the replies, and then message by message the
\* name lookup, the timestamp and the text; a step that raises is the last
\* step run, and get_thread_content ends with its exception; a document is
\* returned only when no step raised and every message was processed.
C3_FirstFailureEnds ==
  /\ \A i \in Steps : i <= 4 => log[i].at = Places[i] /\ log[i].msg = 0
  /\ \A i \in Steps : i > 4 => log[i].msg >= 1 /\ PlaceOf(i) > 4
  /\ \A i, j \in Steps :
       i < j => \/ log[i].msg < log[j].msg
                \/ log[i].msg = log[j].msg /\ PlaceOf(i) <= PlaceOf(j)
  /\ \A i \in Steps :
       log[i].err # Nothing
         => i = Len(log) /\ pc = "idle" /\ outcome = log[i].err
  /\ pc # "idle" => outcome = Nothing
  /\ (pc = "idle" /\ outcome # Nothing /\ IsReturn(outcome))
       => /\ \A i \in Steps : log[i].err = Nothing
          /\ local.i = Len(local.messages) + 1
          /\ outcome.ok = local.ret
  /\ (pc = "idle" /\ outcome # Nothing /\ IsRaise(outcome))
       => log # <<>> /\ log[Len(log)].err = outcome

\* C3's case: a step raised on a later message, with the block of an earlier
\* message already in ret, and the call ended with the exception.
C3_Witness ==
  /\ pc = "idle"
  /\ outcome # Nothing /\ IsRaise(outcome)
  /\ local.ret # <<>>
  /\ log[Len(log)].msg = 2

\* C10: when a mention is resolved the globals gToken and gCookie hold the
\* token and cookie of the call under way, because get_display_name was
\* called for the author of the message first; the out-of-order error is
\* never raised; and every request to users.info carries the token and
\* cookie of the call under way.
C10_GlobalsSetBeforeMentions ==
  /\ pc = "mention" => gToken = local.token /\ gCookie = local.cookie
  /\ \A i \in Steps : log[i].err # OutOfOrder
  /\ outcome # OutOfOrder
  /\ \A i \in Steps :
       IsCall(i) => log[i].token = local.token /\ log[i].cookie = local.cookie
  /\ \A j \in Steps :
       log[j].step = "slack_text_to_markdown"
         => \E i \in 1..(j - 1) :
              /\ IsLookup(i) /\ log[i].at = "name" /\ log[i].msg = log[j].msg
              /\ log[i].token = local.token /\ log[i].cookie = local.cookie

\* C10's case: in a second call, for the other workspace, a mention is
\* resolved with a request to users.info.
C10_Witness ==
  /\ renders = 2
  /\ gToken # Nothing /\ gToken = TokenOf(UrlB)
  /\ \E i \in Steps : IsCall(i) /\ log[i].at = "mention" /\ log[i].err = Nothing
  /\ \E u \in DOMAIN cache : cache[u] = ProfileName(Profile(TokenOf(UrlA), u))

=============================================================================
